---------------------------- MODULE Spec2Model ----------------------------
(***************************************************************************)
(* A model of the record reconciler (src/util/parse.py, consolidate_data), *)
(* of the graph loader (src/subcommands/store_in_neo4j.py, _main), and of  *)
(* single calls of find_paths and of parse_google_play_info.  Each has its *)
(* specification: Spec, SpecGraph, SpecFindPaths, SpecParse; SpecOrder     *)
(* runs the two stages of the graph loader in the order of _main and then  *)
(* in the reverse order, on the same arguments.                            *)
(*                                                                         *)
(* CSV cells are strings.  A Python None is the string NoneVal and a key   *)
(* that a dict does not hold is the string Absent (for packages, which is  *)
(* a joined string, has_packages is FALSE); neither is a value a CSV cell  *)
(* of the model takes.  A URL is the sequence of its components            *)
(* between the "/" separators, so that os.path.basename has something to   *)
(* compute.  A string joined from a set is the sequence of its pieces.     *)
(***************************************************************************)
EXTENDS Integers, Sequences, FiniteSets, TLC

\* ------------------------------------------------------------------ bounds
\* Rows of the original repository CSV file.
MaxRows == 2

\* ------------------------------------------------------------- value sets
NoneVal == "<None>"
Absent == "<absent>"

IDs == {"1", "2"}
Names == {"a", "b"}
Packages == {"p", "q"}

\* Rows of the original file: the identity columns of a repository.  A row
\* is renamed (a -> b) or not, found or not.
OriginalRows ==
    { r \in [id : IDs, full_name : Names, renamed_to : {"", "b"},
             not_found : {"TRUE", "FALSE"}] : r.renamed_to # r.full_name }

\* The forge-import row of an id: the identity columns again (they may differ
\* from the original's) and the forge's clone columns.
GitlabRowOf(id) ==
    IF id = "1"
    THEN [full_name |-> "a", renamed_to |-> "", not_found |-> "FALSE",
          clone_project_name |-> "gitlab/a", clone_project_id |-> "10",
          clone_status |-> "Success",
          clone_project_url |-> <<"http:", "", "host", "gitlab", "a">>]
    ELSE [full_name |-> "b", renamed_to |-> "b", not_found |-> "TRUE",
          clone_project_name |-> "", clone_project_id |-> "",
          clone_status |-> "Failed", clone_project_url |-> <<"">>]

\* The mirror-repair row of a repository name.
MirrorRowOf(name) ==
    IF name = "a"
    THEN [clone_project_name |-> "mirror/a", clone_project_id |-> "20",
          clone_project_path |-> "a.git"]
    ELSE [clone_project_name |-> "mirror/b", clone_project_id |-> "21",
          clone_project_path |-> "b.git"]

\* The packages known to live in a repository name.
PackagesOf(name) == IF name = "a" THEN {"p"} ELSE {"p", "q"}

SeqsUpTo(S, n) == UNION { [1..k -> S] : k \in 0..n }

VARIABLES
    original_file,     \* rows of the original CSV file, in file order
    gitlab_import,     \* forge-import rows, by id
    mirrored_repos,    \* mirror-repair rows, by github_full_name
    packages_by_repo,  \* the association pool: repository name -> packages
    pool_in,           \* the association pool as it was passed in
    original,          \* the dict built from original_file: keys in order, rows
    idx,               \* position of the loop in original's keys
    emitted,           \* the records yielded so far
    matched,           \* per yielded record: the lookup that gave its packages
    warnings,          \* what was logged
    pc,                \* "start", "loop", "done", "failed"
    \* ---- the graph loader (store_in_neo4j.py)
    json_files,        \* the packages with a <PLAY_STORE_DETAILS_DIR>/<pkg>.json
    repository_list,   \* rows of the REPOSITORY_LIST CSV file, in file order
    git_grep,          \* what the mirrored git repositories hold: a GitContents
    graph,             \* the graph database: nodes, relationships, next id
    app_todo,          \* add_app_data: the pool's sets still to visit
    ridx,              \* add_repository_info: position in repository_list
    loading,           \* add_repository_info: the row being loaded
    gpc,               \* "idle", "apps", "repos", "done", "failed"
    \* ---- a call of find_paths (store_in_neo4j.py)
    grep_output,       \* what git.grep returned: (line, path) matches
    found_paths,       \* what find_paths returned
    fpc,               \* "idle", "call", "returned"
    \* ---- a call of parse_google_play_info (parse.py)
    play_details_dir,  \* the two JSON files of the package in the directory
    google_play_info,  \* what parse_google_play_info returned, or how it failed
    ppc,               \* "idle", "call", "returned"
    \* ---- the two stages of the graph loader in both orders
    order,             \* "apps_first" (the order of _main), "repos_first"
    first_run          \* how the run in the order of _main ended

\* The variables of consolidate_data and those of the graph loader.
cvars == <<original_file, gitlab_import, mirrored_repos, pool_in, original,
           idx, emitted, matched, warnings, pc>>
gvars == <<json_files, repository_list, git_grep, graph, app_todo, ridx,
           loading, gpc>>
fvars == <<grep_output, found_paths, fpc>>
pvars == <<play_details_dir, google_play_info, ppc>>
ovars == <<order, first_run>>
vars == <<cvars, packages_by_repo, gvars, fvars, pvars, ovars>>

\* ------------------------------------------------------------ pure helpers
\* Python truthiness of a string or None.
Truthy(s) == s # "" /\ s # NoneVal

\* os.path.basename of a URL: what follows the last "/".
Basename(url) == IF url = <<>> THEN "" ELSE url[Len(url)]

\* The keys of {row['id']: row for row in rows}, in insertion order.
RECURSIVE DictKeys(_)
DictKeys(rows) ==
    IF rows = <<>> THEN <<>>
    ELSE LET front == DictKeys(SubSeq(rows, 1, Len(rows) - 1))
             k == rows[Len(rows)].id
         IN IF \E i \in 1..Len(front) : front[i] = k
            THEN front ELSE Append(front, k)

\* The value of {row['id']: row for row in rows} at k: the last row wins.
DictValue(rows, k) ==
    rows[CHOOSE i \in 1..Len(rows) :
            /\ rows[i].id = k
            /\ \A j \in (i + 1)..Len(rows) : rows[j].id # k]

DictById(rows) ==
    [keys |-> DictKeys(rows),
     row |-> [k \in { rows[i].id : i \in 1..Len(rows) } |-> DictValue(rows, k)]]

\* The orders in which ','.join(set) may list the set.
Joins(S) ==
    { s \in [1..Cardinality(S) -> S] : \A i, j \in DOMAIN s : i # j => s[i] # s[j] }

\* RemoveKey without the del: the entry stays in the pool.
RemoveKey_kept(d, k) == d

\* del d[k]
RemoveKey(d, k) == [x \in DOMAIN d \ {k} |-> d[x]]

\* get_latest_repo_name testing not_found before renamed_to.
get_latest_repo_name_not_found_first(meta_data) ==
    IF meta_data.not_found = "TRUE" THEN <<meta_data.full_name, NoneVal>>
    ELSE IF Truthy(meta_data.renamed_to)
    THEN <<meta_data.full_name, meta_data.renamed_to>>
    ELSE <<meta_data.full_name, meta_data.full_name>>

\* get_latest_repo_name without the not_found test.
get_latest_repo_name_always_found(meta_data) ==
    IF Truthy(meta_data.renamed_to)
    THEN <<meta_data.full_name, meta_data.renamed_to>>
    ELSE <<meta_data.full_name, meta_data.full_name>>

get_latest_repo_name(meta_data) ==
    LET original_repo == meta_data.full_name
        renamed_to == meta_data.renamed_to
        not_found == (meta_data.not_found = "TRUE")
    IN IF Truthy(renamed_to) THEN <<original_repo, renamed_to>>
       ELSE IF ~not_found THEN <<original_repo, original_repo>>
       ELSE <<original_repo, NoneVal>>

\* combined.update(repo_data): the record starts from the original row.
StartCombined(repo_data) ==
    [id |-> repo_data.id, full_name |-> repo_data.full_name,
     renamed_to |-> repo_data.renamed_to, not_found |-> repo_data.not_found,
     clone_project_name |-> Absent, clone_project_id |-> Absent,
     clone_status |-> Absent, clone_project_path |-> Absent,
     has_packages |-> FALSE, packages |-> <<>>]

\* AddGitlabImport taking the identity columns from the forge-import row too.
AddGitlabImport_identity(combined, gitlab_row) ==
    [combined EXCEPT !.full_name = gitlab_row.full_name,
                     !.renamed_to = gitlab_row.renamed_to,
                     !.not_found = gitlab_row.not_found,
                     !.clone_project_name = gitlab_row.clone_project_name,
                     !.clone_project_id = gitlab_row.clone_project_id,
                     !.clone_status = gitlab_row.clone_status,
                     !.clone_project_path = Basename(gitlab_row.clone_project_url)]

\* The columns copied from the forge-import row.
AddGitlabImport(combined, gitlab_row) ==
    [combined EXCEPT !.clone_project_name = gitlab_row.clone_project_name,
                     !.clone_project_id = gitlab_row.clone_project_id,
                     !.clone_status = gitlab_row.clone_status,
                     !.clone_project_path = Basename(gitlab_row.clone_project_url)]

\* The identity columns on which the forge-import row differs.
DifferingColumns(repo_data, gitlab_row) ==
    { <<"differs", key, repo_data.id>> :
        key \in { k \in {"full_name", "renamed_to", "not_found"} :
                    repo_data[k] # gitlab_row[k] } }

_correct_gitlab_data(old, new) ==
    [old EXCEPT !.clone_project_name = new.clone_project_name,
                !.clone_project_id = new.clone_project_id,
                !.clone_project_path = new.clone_project_path,
                !.clone_status = "Success"]

\* A test that corrects a record from the row of its current name alone.
MirrorBranch_current_only(repo_name, legacy_name, mirrored) ==
    IF Truthy(repo_name) /\ repo_name \in DOMAIN mirrored THEN "current"
    ELSE "none"

\* The branch of "if not repo_name and repo_name in mirrored_repos: ...
\* elif legacy_name in mirrored_repos: ...": which name the record is
\* corrected from.
MirrorBranch(repo_name, legacy_name, mirrored) ==
    IF ~Truthy(repo_name) /\ repo_name \in DOMAIN mirrored THEN "current"
    ELSE IF legacy_name \in DOMAIN mirrored THEN "legacy"
    ELSE "none"

\* PackagesBranch trying the original name before the current name.
PackagesBranch_legacy_first(repo_name, legacy_name, pool) ==
    IF legacy_name \in DOMAIN pool THEN "legacy"
    ELSE IF Truthy(repo_name) /\ repo_name \in DOMAIN pool THEN "current"
    ELSE "none"

\* The branch of "if repo_name and repo_name in packages_by_repo: ...
\* elif legacy_name in packages_by_repo: ... else: ...": which name the
\* packages are looked up by.
PackagesBranch(repo_name, legacy_name, pool) ==
    IF Truthy(repo_name) /\ repo_name \in DOMAIN pool THEN "current"
    ELSE IF legacy_name \in DOMAIN pool THEN "legacy"
    ELSE "none"

\* The name a branch stands for.
BranchKey(branch, repo_name, legacy_name) ==
    IF branch = "current" THEN repo_name
    ELSE IF branch = "legacy" THEN legacy_name
    ELSE NoneVal

\* if not combined.get('clone_project_id'): the warning of a record without
\* forge id.
NoGitlabId(combined) ==
    IF combined.clone_project_id = Absent \/ ~Truthy(combined.clone_project_id)
    THEN {<<"no_gitlab_id", "", combined.id>>} ELSE {}

\* store_in_neo4j.py's own copy of get_latest_repo_name.
neo4j_get_latest_repo_name(meta_data) ==
    LET original_repo == meta_data.full_name
        renamed_to == meta_data.renamed_to
        not_found == (meta_data.not_found = "TRUE")
    IN IF Truthy(renamed_to) THEN <<original_repo, renamed_to>>
       ELSE IF ~not_found THEN <<original_repo, original_repo>>
       ELSE <<original_repo, NoneVal>>

\* packages.get(latest_repo_name, packages.get(original_repo_name)): the set
\* found, or None (found = FALSE).
find_package_names(meta_data, packages) ==
    LET names == neo4j_get_latest_repo_name(meta_data)
        original_repo_name == names[1]
        latest_repo_name == names[2]
    IN IF latest_repo_name \in DOMAIN packages
       THEN [found |-> TRUE, by |-> "current", set |-> packages[latest_repo_name]]
       ELSE IF original_repo_name \in DOMAIN packages
       THEN [found |-> TRUE, by |-> "legacy", set |-> packages[original_repo_name]]
       ELSE [found |-> FALSE, by |-> "none", set |-> {}]

\* ========================================================================
\* The graph loader: store_in_neo4j.py, _main and what it calls.
\*
\* The graph database is a set of nodes and a set of relationships.  A node
\* is [nid, label, props, src]: nid is the database's own id of the node,
\* props its properties, and src the id column of the REPOSITORY_LIST row a
\* GitHubRepository node was made from ("" for the other labels).  src is no
\* property of the node (format_repository_data copies no id): it is kept
\* to state what the claims say about "the node of a forge id".
\*
\* A Cypher query is read clause by clause: MATCH binds the rows that match,
\* MERGE binds the matching nodes or creates one, CREATE creates once per
\* bound row, and a CREATE on a bound variable adds the given properties
\* to it.
\* ========================================================================

\* Rows of the REPOSITORY_LIST CSV file.
MaxRepoRows == 2

\* A row of REPOSITORY_LIST.  Repository 1 is a, repository 2 is b; a row
\* that was cloned has the forge's project id.
RepositoryRow(id, renamed_to, clone_status, parent_id) ==
    [id |-> id,
     full_name |-> IF id = "1" THEN "a" ELSE "b",
     owner_login |-> "owner",
     name |-> IF id = "1" THEN "a" ELSE "b",
     renamed_to |-> renamed_to,
     not_found |-> "FALSE",
     clone_status |-> clone_status,
     clone_project_id |-> IF clone_status # "Success" THEN ""
                          ELSE IF id = "1" THEN "10" ELSE "11",
     clone_project_name |-> IF id = "1" THEN "gitlab/a" ELSE "gitlab/b",
     clone_project_url |-> IF id = "1" THEN "http://host/gitlab/a"
                           ELSE "http://host/gitlab/b",
     parent_id |-> parent_id,
     source_id |-> parent_id]

\* Repository 1 is renamed to b or not, and a fork of repository 2 or not;
\* either repository was cloned or not.
RepositoryRows ==
    { RepositoryRow("1", rn, "Success", par) :
        rn \in {"", "b"}, par \in {"", "2"} }
    \cup { RepositoryRow("1", "", "Failed", ""),
           RepositoryRow("2", "", "Success", ""),
           RepositoryRow("2", "", "Failed", "") }

\* int(row['clone_project_id'])
ParseInt(s) == CASE s = "10" -> 10 [] s = "11" -> 11

\* datetime.strptime(snapshot, '%Y-%m-%dT%H:%M:%S.%fZ').timestamp()
SnapshotTimestamp(snapshot) ==
    CASE snapshot = "2018-01-01T00:00:00.000Z" -> 1514764800
      [] snapshot = "2018-01-02T00:00:00.000Z" -> 1514851200

Commit1 ==
    [id |-> "c1", short_id |-> "c1", title |-> "first", parent_ids |-> <<>>,
     author_email |-> "x@", author_name |-> "X",
     committer_email |-> "x@", committer_name |-> "X",
     authored_date |-> "d1", committed_date |-> "d1"]

Commit2 ==
    [id |-> "c2", short_id |-> "c2", title |-> "second",
     parent_ids |-> <<"c1">>,
     author_email |-> "y@", author_name |-> "Y",
     committer_email |-> "x@", committer_name |-> "X",
     authored_date |-> "d2", committed_date |-> "d3"]

\* A commit whose parent c0 the forge does not list.
Commit3 ==
    [id |-> "c3", short_id |-> "c3", title |-> "third",
     parent_ids |-> <<"c0">>,
     author_email |-> "x@", author_name |-> "X",
     committer_email |-> "x@", committer_name |-> "X",
     authored_date |-> "d4", committed_date |-> "d4"]

\* gitlab.projects.get(project_id): the forge's project of a clone.
GitlabProject(project_id) ==
    IF project_id = 10
    THEN [created_at |-> "2018-01-01T00:00:00.000Z",
          default_branch |-> "master",
          commits |-> {Commit1, Commit2},
          branches |-> <<[name |-> "master", commit |-> "c2"]>>,
          tags |-> <<[name |-> "v1", message |-> "one", commit |-> "c1"]>>]
    ELSE [created_at |-> "2018-01-02T00:00:00.000Z",
          default_branch |-> "main",
          commits |-> {Commit3},
          branches |-> <<[name |-> "main", commit |-> "c3"]>>,
          tags |-> <<>>]

\* The orders in which a listing may give the elements of S.
Orders(S) == Joins(S)

\* ------------------------------------------------------- the graph client
\* The nodes of a label with a property value.
Matching(g, label, key, val) ==
    { n \in g.nodes : n.label = label /\ key \in DOMAIN n.props
                        /\ n.props[key] = val }

\* CREATE (:label {props})
CreateNode(g, label, props, src) ==
    [g EXCEPT !.nodes = @ \cup {[nid |-> g.next_id, label |-> label,
                                 props |-> props, src |-> src]},
              !.next_id = @ + 1]

\* CREATE (from)-[:type {props}]->(to)
CreateRel(g, type, from, to, props) ==
    [g EXCEPT !.rels = @ \cup {[rid |-> g.next_id, type |-> type,
                                from |-> from, to |-> to, props |-> props]},
              !.next_id = @ + 1]

\* MERGE (:label {key: val})
MergeNode(g, label, key, val) ==
    IF Matching(g, label, key, val) # {} THEN g
    ELSE CreateNode(g, label, [k \in {key} |-> val], "")

\* Properties added to those an entity has.
MergeProps(old, new) ==
    [k \in DOMAIN old \cup DOMAIN new |->
        IF k \in DOMAIN new THEN new[k] ELSE old[k]]

\* The properties of node nid, with props added.
SetNodeProps(g, nid, props) ==
    [g EXCEPT !.nodes =
        { IF n.nid = nid THEN [n EXCEPT !.props = MergeProps(@, props)] ELSE n
          : n \in @ }]

\* The properties of relationship rid, with props added.
SetRelProps(g, rid, props) ==
    [g EXCEPT !.rels =
        { IF r.rid = rid THEN [r EXCEPT !.props = MergeProps(@, props)] ELSE r
          : r \in @ }]

\* ------------------------------------------------------------ add_app_data
\* MERGE (g:GooglePlayPage {docId: package})
\* CREATE (a:App {id: package})-[:PUBLISHED_AT]->(g), once per bound page.
RECURSIVE CreateAppPerPage(_, _, _)
CreateAppPerPage(g, pages, package) ==
    IF pages = {} THEN g
    ELSE LET page == CHOOSE x \in pages : TRUE
             g1 == CreateNode(g, "App", [id |-> package], "")
             g2 == CreateRel(g1, "PUBLISHED_AT", g.next_id, page.nid, <<>>)
         IN CreateAppPerPage(g2, pages \ {page}, package)

MergePageCreateApp(g, package) ==
    LET g1 == MergeNode(g, "GooglePlayPage", "docId", package)
    IN CreateAppPerPage(g1, Matching(g1, "GooglePlayPage", "docId", package),
                        package)

\* ----------------------------------------------------- add_repository_node
format_repository_data(meta_data, snapshot) ==
    [owner |-> meta_data.owner_login,
     name |-> IF Truthy(meta_data.renamed_to) THEN meta_data.renamed_to
              ELSE meta_data.name,
     snapshot |-> meta_data.clone_project_url,
     snapshotTimestamp |-> SnapshotTimestamp(snapshot),
     parentId |-> meta_data.parent_id,
     sourceId |-> meta_data.source_id]

\* CREATE (app)-[:IMPLEMENTED_BY]->(repo:GitHubRepository {repo_properties}),
\* once per bound app.
RECURSIVE CreateRepoPerApp(_, _, _, _)
CreateRepoPerApp(g, apps, repo_data, src) ==
    IF apps = {} THEN g
    ELSE LET app == CHOOSE x \in apps : TRUE
             g1 == CreateNode(g, "GitHubRepository", repo_data, src)
             g2 == CreateRel(g1, "IMPLEMENTED_BY", app.nid, g.next_id, <<>>)
         IN CreateRepoPerApp(g2, apps \ {app}, repo_data, src)

\* MATCH (app:App) WHERE app.id in {package_names}: no row when the
\* parameter is null.
MatchedApps(g, package_names) ==
    IF package_names.found
    THEN { n \in g.nodes : n.label = "App" /\ n.props.id \in package_names.set }
    ELSE {}

\* A query that creates the repository node also when no App matches.
add_repository_node_orphan(g, meta_data, package_names, snapshot) ==
    IF MatchedApps(g, package_names) = {}
    THEN CreateNode(g, "GitHubRepository",
                    format_repository_data(meta_data, snapshot), meta_data.id)
    ELSE CreateRepoPerApp(g, MatchedApps(g, package_names),
                          format_repository_data(meta_data, snapshot),
                          meta_data.id)

\* The graph after the query of add_repository_node.
add_repository_node(g, meta_data, package_names, snapshot) ==
    CreateRepoPerApp(g, MatchedApps(g, package_names),
                     format_repository_data(meta_data, snapshot), meta_data.id)

\* ------------------------------------------------------------ the listings
\* The node of a label with a property value, after a MERGE on it.
TheNode(g, label, key, val) == CHOOSE n \in Matching(g, label, key, val) : TRUE

\* A loop that creates a Commit node per parent id instead of merging it.
RECURSIVE MergeParents_create(_, _)
MergeParents_create(g, parent_ids) ==
    IF parent_ids = <<>> THEN g
    ELSE MergeParents_create(
             CreateNode(g, "Commit", [hash |-> Head(parent_ids)], ""),
             Tail(parent_ids))

\* for parent in commit.parent_ids: MERGE (:Commit {hash: parent})
RECURSIVE MergeParents(_, _)
MergeParents(g, parent_ids) ==
    IF parent_ids = <<>> THEN g
    ELSE MergeParents(MergeNode(g, "Commit", "hash", Head(parent_ids)),
                      Tail(parent_ids))

\* One pass of the loop of add_commit_nodes.
AddCommit(g, commit, repo_node_id) ==
    LET g1 == MergeNode(g, "Commit", "hash", commit.id)
        g2 == MergeNode(g1, "Contributor", "email", commit.author_email)
        g3 == MergeNode(g2, "Contributor", "email", commit.committer_email)
        c == TheNode(g3, "Commit", "hash", commit.id).nid
        author == TheNode(g3, "Contributor", "email", commit.author_email).nid
        committer ==
            TheNode(g3, "Contributor", "email", commit.committer_email).nid
        g4 == SetNodeProps(g3, c,
                  [id |-> commit.id, short_id |-> commit.short_id,
                   title |-> commit.title])
        g5 == SetNodeProps(g4, author,
                  [email |-> commit.author_email, name |-> commit.author_name])
        g6 == SetNodeProps(g5, committer,
                  [email |-> commit.committer_email,
                   name |-> commit.committer_name])
        g7 == CreateRel(g6, "BELONGS_TO", c, repo_node_id, <<>>)
        g8 == CreateRel(g7, "AUTHORS", author, c,
                        [date |-> commit.authored_date])
        g9 == CreateRel(g8, "COMMITS", committer, c,
                        [date |-> commit.committed_date])
    IN MergeParents(g9, commit.parent_ids)

\* One pass of the loop of add_branche_nodes.
AddBranch(g, branch, repo_node_id) ==
    LET g1 == MergeNode(g, "Commit", "hash", branch.commit)
        g2 == CreateNode(g1, "Branch", [name |-> branch.name], "")
    IN CreateRel(g2, "BELONGS_TO", g1.next_id, repo_node_id, <<>>)

\* One pass of the loop of add_tag_nodes.
AddTag(g, tag, repo_node_id) ==
    LET g1 == MergeNode(g, "Commit", "hash", tag.commit)
        g2 == CreateNode(g1, "Tag",
                         [name |-> tag.name, message |-> tag.message], "")
    IN CreateRel(g2, "BELONGS_TO", g1.next_id, repo_node_id, <<>>)

\* -------------------------------------------------------------- the paths
\* What the mirrored git repositories hold.
GitContents == {"nothing", "android"}

\* git.grep(pattern, branch, file_pattern): the (line, path) matches of the
\* search of a package in the files of a kind.
Grep(contents, kind, package) ==
    IF contents = "android" /\ kind = "manifest" /\ package = "p"
    THEN <<[line |-> 2, path |-> "c/d.xml"], [line |-> 1, path |-> "a/b.xml"],
           [line |-> 5, path |-> "a/b.xml"]>>
    ELSE IF contents = "android" /\ kind = "gradle" /\ package = "p"
    THEN <<[line |-> 3, path |-> "app/build.gradle"]>>
    ELSE IF contents = "android" /\ kind = "maven"
    THEN <<[line |-> 1, path |-> "pom.xml"]>>
    ELSE <<>>

\* The order of Python's str on the paths of the model.
PathRank(path) ==
    CASE path = "a/b.xml" -> 1
      [] path = "app/build.gradle" -> 2
      [] path = "c/d.xml" -> 3
      [] path = "pom.xml" -> 4

\* The paths left in the order of the search results.
Sorted_unsorted(paths) == paths

\* sorted(paths), by insertion.
RECURSIVE Sorted(_)
Sorted(paths) ==
    IF paths = <<>> THEN <<>>
    ELSE LET rest == Sorted(Tail(paths))
             x == Head(paths)
             k == Cardinality({ i \in DOMAIN rest :
                                  PathRank(rest[i]) < PathRank(x) })
         IN SubSeq(rest, 1, k) \o <<x>> \o SubSeq(rest, k + 1, Len(rest))

\* [group[0] for group in itertools.groupby(paths)]: one entry per run of
\* equal neighbours.
RECURSIVE GroupKeys(_)
GroupKeys(paths) ==
    IF Len(paths) <= 1 THEN paths
    ELSE IF paths[1] = paths[2] THEN GroupKeys(Tail(paths))
    ELSE <<paths[1]>> \o GroupKeys(Tail(paths))

find_paths(search_results) ==
    GroupKeys(Sorted([i \in DOMAIN search_results |-> search_results[i].path]))

\* MATCH (:App {id: package})-[r:IMPLEMENTED_BY]->(repo) WHERE id(repo) =
\* repo_id, and the properties added to every r bound.
RECURSIVE SetPropsOfRels(_, _, _)
SetPropsOfRels(g, rids, properties) ==
    IF rids = {} THEN g
    ELSE LET rid == CHOOSE x \in rids : TRUE
         IN SetPropsOfRels(SetRelProps(g, rid, properties), rids \ {rid},
                           properties)

\* A query that sets the relationship's properties to the given ones alone.
add_paths_property_replace(g, properties, repo_node_id, package_name) ==
    [g EXCEPT !.rels =
        { IF /\ r.type = "IMPLEMENTED_BY"
             /\ r.to = repo_node_id
             /\ \E a \in Matching(g, "App", "id", package_name) : a.nid = r.from
          THEN [r EXCEPT !.props = properties] ELSE r : r \in @ }]

add_paths_property(g, properties, repo_node_id, package_name) ==
    SetPropsOfRels(g,
        { r.rid : r \in { x \in g.rels :
            /\ x.type = "IMPLEMENTED_BY"
            /\ x.to = repo_node_id
            /\ \E a \in Matching(g, "App", "id", package_name) : a.nid = x.from } },
        properties)

add_manifest_path(g, repo_node_id, package_name, contents) ==
    LET paths == find_paths(Grep(contents, "manifest", package_name))
    IN IF paths # <<>>
       THEN add_paths_property(g, [manifestPaths |-> paths], repo_node_id,
                               package_name)
       ELSE g

add_gradle_config_path(g, repo_node_id, package_name, contents) ==
    LET paths == find_paths(Grep(contents, "gradle", package_name))
    IN IF paths # <<>>
       THEN add_paths_property(g, [gradleConfigPaths |-> paths], repo_node_id,
                               package_name)
       ELSE g

add_maven_config_path(g, repo_node_id, package_name, contents) ==
    LET paths == find_paths(Grep(contents, "maven", package_name))
    IN IF paths # <<>>
       THEN add_paths_property(g, [mavenConfigPaths |-> paths], repo_node_id,
                               package_name)
       ELSE g

\* ------------------------------------------------------- what a run leaves
EmptyGraph == [nodes |-> {}, rels |-> {}, next_id |-> 0]

\* How many App nodes a graph has per package id, GooglePlayPage nodes per
\* docId, GitHubRepository nodes per row id, and IMPLEMENTED_BY edges per
\* package id and row id.
Summary(g) ==
    [apps |-> [pk \in Packages |->
                 Cardinality(Matching(g, "App", "id", pk))],
     pages |-> [pk \in Packages |->
                  Cardinality(Matching(g, "GooglePlayPage", "docId", pk))],
     repos |-> [id \in IDs |->
                  Cardinality({ n \in g.nodes :
                      n.label = "GitHubRepository" /\ n.src = id })],
     edges |-> [e \in Packages \X IDs |->
                  Cardinality({ r \in g.rels :
                      /\ r.type = "IMPLEMENTED_BY"
                      /\ \E a \in Matching(g, "App", "id", e[1]) :
                             a.nid = r.from
                      /\ \E n \in g.nodes :
                             /\ n.label = "GitHubRepository"
                             /\ n.src = e[2]
                             /\ n.nid = r.to })]]

\* The stages run in the order of _main, and no run has ended.
MainOrder ==
    /\ order = "apps_first"
    /\ first_run = [outcome |-> "none", summary |-> Summary(EmptyGraph)]

\* ------------------------------------------------------------------- Init
\* The graph loader is not running.
LoaderIdle ==
    /\ json_files = {}
    /\ repository_list = <<>>
    /\ git_grep = "none"
    /\ graph = [nodes |-> {}, rels |-> {}, next_id |-> 0]
    /\ app_todo = <<>>
    /\ ridx = 1
    /\ loading = [active |-> FALSE]
    /\ gpc = "idle"

\* No call of find_paths is under way.
FindPathsIdle ==
    /\ grep_output = <<>>
    /\ found_paths = <<>>
    /\ fpc = "idle"

\* No call of parse_google_play_info is under way.
ParseIdle ==
    /\ play_details_dir = <<>>
    /\ google_play_info = [kind |-> "pending"]
    /\ ppc = "idle"

Init ==
    /\ LoaderIdle
    /\ FindPathsIdle
    /\ ParseIdle
    /\ MainOrder
    /\ original_file \in SeqsUpTo(OriginalRows, MaxRows)
    /\ \E S \in SUBSET IDs : gitlab_import = [i \in S |-> GitlabRowOf(i)]
    /\ \E S \in SUBSET Names : mirrored_repos = [n \in S |-> MirrorRowOf(n)]
    /\ \E S \in SUBSET Names : packages_by_repo = [n \in S |-> PackagesOf(n)]
    /\ pool_in = packages_by_repo
    /\ original = [keys |-> <<>>, row |-> <<>>]
    /\ idx = 1
    /\ emitted = <<>>
    /\ matched = <<>>
    /\ warnings = {}
    /\ pc = "start"

\* ---------------------------------------------------------------- actions
\* consolidate_data up to its loop: index the files, compare their lengths.
ReadFiles ==
    /\ pc = "start"
    /\ original' = DictById(original_file)
    /\ warnings' =
         IF Len(DictKeys(original_file)) # Cardinality(DOMAIN gitlab_import)
         THEN {<<"lengths", "", "">>} ELSE {}
    /\ pc' = "loop"
    /\ UNCHANGED <<original_file, gitlab_import, mirrored_repos,
                   packages_by_repo, pool_in, idx, emitted, matched>>
    /\ UNCHANGED <<gvars, fvars, pvars, ovars>>

\* One pass of the loop of consolidate_data, up to its yield.
ConsolidateRow ==
    /\ pc = "loop"
    /\ idx <= Len(original.keys)
    /\ LET github_id == original.keys[idx]
           repo_data == original.row[github_id]
           in_gitlab == github_id \in DOMAIN gitlab_import
           combined1 == IF in_gitlab
                        THEN AddGitlabImport(StartCombined(repo_data),
                                             gitlab_import[github_id])
                        ELSE StartCombined(repo_data)
           warn1 == IF in_gitlab
                    THEN DifferingColumns(repo_data, gitlab_import[github_id])
                    ELSE {<<"not_in_gitlab", "", github_id>>}
           names == get_latest_repo_name(repo_data)
           legacy_name == names[1]
           repo_name == names[2]
           mbranch == MirrorBranch(repo_name, legacy_name, mirrored_repos)
           mkey == BranchKey(mbranch, repo_name, legacy_name)
           combined2 == IF mbranch # "none"
                        THEN _correct_gitlab_data(combined1, mirrored_repos[mkey])
                        ELSE combined1
           pbranch == PackagesBranch(repo_name, legacy_name, packages_by_repo)
           pkey == BranchKey(pbranch, repo_name, legacy_name)
       IN IF pbranch # "none"
          THEN \E joined \in Joins(packages_by_repo[pkey]) :
                 LET combined == [combined2 EXCEPT !.has_packages = TRUE,
                                                   !.packages = joined]
                 IN /\ packages_by_repo' = RemoveKey(packages_by_repo, pkey)
                    /\ emitted' = Append(emitted, combined)
                    /\ matched' = Append(matched, [by |-> pbranch, key |-> pkey])
                    /\ warnings' = warnings \cup warn1 \cup NoGitlabId(combined)
                    /\ idx' = idx + 1
                    /\ pc' = pc
          ELSE IF repo_name = NoneVal
          THEN \* ', '.join({legacy_name, repo_name}) raises TypeError on None:
               \* the generator ends without yielding this record.
               /\ pc' = "failed"
               /\ warnings' = warnings \cup warn1
               /\ UNCHANGED <<packages_by_repo, emitted, matched, idx>>
          ELSE /\ emitted' = Append(emitted, combined2)
               /\ matched' = Append(matched, [by |-> "none", key |-> NoneVal])
               /\ warnings' = warnings \cup warn1 \cup
                    {<<"no_package", "", github_id>>} \cup NoGitlabId(combined2)
               /\ idx' = idx + 1
               /\ UNCHANGED <<packages_by_repo, pc>>
    /\ UNCHANGED <<original_file, gitlab_import, mirrored_repos, pool_in,
                   original>>
    /\ UNCHANGED <<gvars, fvars, pvars, ovars>>

\* After the loop: the associations no row consumed are logged.
ReportLeftovers ==
    /\ pc = "loop"
    /\ idx > Len(original.keys)
    /\ warnings' = warnings \cup
         (IF DOMAIN packages_by_repo # {}
          THEN {<<"left_without_repository", "", "">>} \cup
               { <<"not_used", repo, "">> : repo \in DOMAIN packages_by_repo }
          ELSE {})
    /\ pc' = "done"
    /\ UNCHANGED <<original_file, gitlab_import, mirrored_repos,
                   packages_by_repo, pool_in, original, idx, emitted, matched>>
    /\ UNCHANGED <<gvars, fvars, pvars, ovars>>

Next == ReadFiles \/ ConsolidateRow \/ ReportLeftovers

Spec == Init /\ [][Next]_vars

\* ------------------------------------------------ the graph loader's steps
\* consolidate_data is not running.
ConsolidateIdle ==
    /\ original_file = <<>>
    /\ gitlab_import = <<>>
    /\ mirrored_repos = <<>>
    /\ pool_in = packages_by_repo
    /\ original = [keys |-> <<>>, row |-> <<>>]
    /\ idx = 1
    /\ emitted = <<>>
    /\ matched = <<>>
    /\ warnings = {}
    /\ pc = "idle"

\* packages_by_repo.values(), in the order of the file.
PoolValues(pool) ==
    (IF "a" \in DOMAIN pool THEN <<pool["a"]>> ELSE <<>>)
        \o (IF "b" \in DOMAIN pool THEN <<pool["b"]>> ELSE <<>>)

\* _main, before add_app_data: the arguments are read, the graph is empty.
GraphInit ==
    /\ \E S \in SUBSET Names : packages_by_repo = [n \in S |-> PackagesOf(n)]
    /\ ConsolidateIdle
    /\ FindPathsIdle
    /\ ParseIdle
    /\ MainOrder
    /\ json_files \in SUBSET Packages
    /\ repository_list \in SeqsUpTo(RepositoryRows, MaxRepoRows)
    /\ git_grep \in GitContents
    /\ graph = [nodes |-> {}, rels |-> {}, next_id |-> 0]
    /\ app_todo = PoolValues(packages_by_repo)
    /\ ridx = 1
    /\ loading = [active |-> FALSE]
    /\ gpc = IF DOMAIN packages_by_repo = {} THEN "repos" ELSE "apps"

\* One pass of the inner loop of add_app_data, which runs as the stage of
\* that name and is followed by the stage next.
AddAppPackageIn(stage, next) ==
    /\ gpc = stage
    /\ app_todo # <<>>
    /\ \E package \in Head(app_todo) :
         LET rest == Head(app_todo) \ {package}
             todo == IF rest = {} THEN Tail(app_todo)
                     ELSE <<rest>> \o Tail(app_todo)
         IN IF package \in json_files
            THEN \* add_google_play_page_node: format_google_play_info calls
                 \* os.stat on the open file, which raises TypeError.
                 /\ gpc' = "failed"
                 /\ UNCHANGED <<graph, app_todo>>
            ELSE /\ graph' = MergePageCreateApp(graph, package)
                 /\ app_todo' = todo
                 /\ gpc' = IF todo = <<>> THEN next ELSE stage
    /\ UNCHANGED <<cvars, fvars, pvars, ovars, packages_by_repo, json_files,
                   repository_list, git_grep, ridx, loading>>

\* _main: add_app_data runs first, add_repository_info after it.
AddAppPackage == AddAppPackageIn("apps", "repos")

\* A skip that ends the loop: break where the code has continue.
SkipRepositoryRow_break ==
    /\ gpc' = "done"
    /\ UNCHANGED <<graph, loading, ridx>>

\* add_repository_info: the row was not cloned; continue with the next row.
SkipRepositoryRow ==
    /\ ridx' = ridx + 1
    /\ UNCHANGED <<graph, loading, gpc>>

\* add_repository_info: a pass of the loop up to add_commit_nodes.
AddRepositoryRow ==
    /\ gpc = "repos"
    /\ ~loading.active
    /\ ridx <= Len(repository_list)
    /\ LET row == repository_list[ridx]
       IN IF row.clone_status # "Success"
          THEN SkipRepositoryRow
          ELSE LET packages == find_package_names(row, packages_by_repo)
                   project == GitlabProject(ParseInt(row.clone_project_id))
                   g1 == add_repository_node(graph, row, packages,
                                             project.created_at)
                   created == { n \in g1.nodes \ graph.nodes :
                                  n.label = "GitHubRepository" }
               IN IF created = {}
                  THEN \* result.single() is None: None[0] raises TypeError.
                       /\ gpc' = "failed"
                       /\ UNCHANGED <<graph, loading, ridx>>
                  ELSE \E node \in created, commits \in Orders(project.commits) :
                         /\ graph' = g1
                         /\ loading' = [active |-> TRUE,
                                        node |-> node.nid,
                                        commits |-> commits,
                                        branches |-> project.branches,
                                        tags |-> project.tags,
                                        packages |-> packages.set]
                         /\ UNCHANGED <<ridx, gpc>>
    /\ UNCHANGED <<cvars, fvars, pvars, ovars, packages_by_repo, json_files,
                   repository_list, git_grep, app_todo>>

\* add_commit_nodes: a pass of its loop.
AddCommitNode ==
    /\ loading.active
    /\ loading.commits # <<>>
    /\ graph' = AddCommit(graph, Head(loading.commits), loading.node)
    /\ loading' = [loading EXCEPT !.commits = Tail(@)]
    /\ UNCHANGED <<cvars, fvars, pvars, ovars, packages_by_repo, json_files,
                   repository_list, git_grep, app_todo, ridx, gpc>>

\* add_branche_nodes: a pass of its loop.
AddBranchNode ==
    /\ loading.active
    /\ loading.commits = <<>>
    /\ loading.branches # <<>>
    /\ graph' = AddBranch(graph, Head(loading.branches), loading.node)
    /\ loading' = [loading EXCEPT !.branches = Tail(@)]
    /\ UNCHANGED <<cvars, fvars, pvars, ovars, packages_by_repo, json_files,
                   repository_list, git_grep, app_todo, ridx, gpc>>

\* add_tag_nodes: a pass of its loop.
AddTagNode ==
    /\ loading.active
    /\ loading.commits = <<>>
    /\ loading.branches = <<>>
    /\ loading.tags # <<>>
    /\ graph' = AddTag(graph, Head(loading.tags), loading.node)
    /\ loading' = [loading EXCEPT !.tags = Tail(@)]
    /\ UNCHANGED <<cvars, fvars, pvars, ovars, packages_by_repo, json_files,
                   repository_list, git_grep, app_todo, ridx, gpc>>

\* add_implementation_properties: a pass of its loop.
AddImplementationProperties ==
    /\ loading.active
    /\ loading.commits = <<>>
    /\ loading.branches = <<>>
    /\ loading.tags = <<>>
    /\ loading.packages # {}
    /\ \E package \in loading.packages :
         /\ graph' =
              add_maven_config_path(
                add_gradle_config_path(
                  add_manifest_path(graph, loading.node, package, git_grep),
                  loading.node, package, git_grep),
                loading.node, package, git_grep)
         /\ loading' = [loading EXCEPT !.packages = @ \ {package}]
    /\ UNCHANGED <<cvars, fvars, pvars, ovars, packages_by_repo, json_files,
                   repository_list, git_grep, app_todo, ridx, gpc>>

\* add_repository_info: the row is loaded, the loop goes to the next row.
NextRepositoryRow ==
    /\ loading.active
    /\ loading.commits = <<>>
    /\ loading.branches = <<>>
    /\ loading.tags = <<>>
    /\ loading.packages = {}
    /\ loading' = [active |-> FALSE]
    /\ ridx' = ridx + 1
    /\ UNCHANGED <<cvars, fvars, pvars, ovars, packages_by_repo, json_files,
                   repository_list, git_grep, graph, app_todo, gpc>>

\* _main returns: add_repository_info has read every row.
Finish ==
    /\ order = "apps_first"
    /\ gpc = "repos"
    /\ ~loading.active
    /\ ridx > Len(repository_list)
    /\ gpc' = "done"
    /\ UNCHANGED <<cvars, fvars, pvars, ovars, packages_by_repo, json_files,
                   repository_list, git_grep, graph, app_todo, ridx, loading>>

GraphNext ==
    \/ AddAppPackage
    \/ AddRepositoryRow
    \/ AddCommitNode
    \/ AddBranchNode
    \/ AddTagNode
    \/ AddImplementationProperties
    \/ NextRepositoryRow
    \/ Finish

SpecGraph == GraphInit /\ [][GraphNext]_vars

\* ------------------------------------------------- the stages in both orders
\* The run in the order of _main has ended; what it left is kept, and the
\* same arguments are given to add_repository_info and then add_app_data, on
\* an empty graph.
StartReversed ==
    /\ order = "apps_first"
    /\ gpc \in {"done", "failed"}
    /\ first_run' = [outcome |-> gpc, summary |-> Summary(graph)]
    /\ order' = "repos_first"
    /\ graph' = EmptyGraph
    /\ app_todo' = PoolValues(packages_by_repo)
    /\ ridx' = 1
    /\ loading' = [active |-> FALSE]
    /\ gpc' = "repos"
    /\ UNCHANGED <<cvars, fvars, pvars, packages_by_repo, json_files,
                   repository_list, git_grep>>

\* add_repository_info, run first, has read every row: add_app_data is next.
RepositoriesFirstDone ==
    /\ order = "repos_first"
    /\ gpc = "repos"
    /\ ~loading.active
    /\ ridx > Len(repository_list)
    /\ gpc' = IF app_todo = <<>> THEN "done" ELSE "apps_last"
    /\ UNCHANGED <<cvars, fvars, pvars, ovars, packages_by_repo, json_files,
                   repository_list, git_grep, graph, app_todo, ridx, loading>>

\* add_app_data, run after add_repository_info.
AddAppPackageLast == AddAppPackageIn("apps_last", "done")

OrderNext ==
    \/ GraphNext
    \/ StartReversed
    \/ RepositoriesFirstDone
    \/ AddAppPackageLast

SpecOrder == GraphInit /\ [][OrderNext]_vars

\* ------------------------------------------------------ a call of find_paths
\* Matches in a list of search results.
MaxMatches == 3

\* The (line, path) matches git.grep may return.
Matches == { [line |-> l, path |-> pa] :
               l \in {1, 2, 5}, pa \in {"a/b.xml", "c/d.xml"} }

\* find_paths is called; git.grep returns some list of matches.
FindPathsInit ==
    /\ packages_by_repo = <<>>
    /\ ConsolidateIdle
    /\ LoaderIdle
    /\ ParseIdle
    /\ MainOrder
    /\ grep_output \in SeqsUpTo(Matches, MaxMatches)
    /\ found_paths = <<>>
    /\ fpc = "call"

FindPaths ==
    /\ fpc = "call"
    /\ found_paths' = find_paths(grep_output)
    /\ fpc' = "returned"
    /\ UNCHANGED <<cvars, packages_by_repo, gvars, pvars, ovars, grep_output>>

FindPathsNext == FindPaths

SpecFindPaths == FindPathsInit /\ [][FindPathsNext]_vars

\* ------------------------------------------ a call of parse_google_play_info
\* A parsed JSON object is a function from its keys; a file of the details
\* directory is [exists, json, mtime].

\* Categories in the appCategory list of a primary file.
MaxCategories == 2

EmptyDict == [k \in {} |-> NoneVal]

\* d.get(key, default)
Get(d, key, default) == IF key \in DOMAIN d THEN d[key] ELSE default

\* The truth value of a dict or a list.
NonEmpty(d) == DOMAIN d # {}

\* The keys parse_google_play_info reads by subscript.
RequiredKeys ==
    <<"promotionalDescription", "descriptionHtml", "translatedDescriptionHtml">>

\* The details sections a primary file may hold: none, one without
\* appDetails, one whose appDetails has no appCategory, and one with a list
\* of categories and an upload date.
DetailsSections ==
    {EmptyDict}
    \cup { [details |-> EmptyDict] }
    \cup { [details |-> [appDetails |-> [versionCode |-> 7]]] }
    \cup { [details |-> [appDetails |->
               [versionCode |-> 7, uploadDate |-> "Jan 1, 2018",
                appCategory |-> cats]]] :
           cats \in SeqsUpTo({"A", "B"}, MaxCategories) }

\* The primary JSON objects of package p: a details section or none, an
\* offer or none, and any of the keys read by subscript.
PrimaryJsons ==
    { [docId |-> "p", title |-> "T"] @@ section @@ offer @@
      [k \in present |-> "text"] :
        section \in DetailsSections,
        offer \in {EmptyDict,
                   [offer |-> <<[formattedAmount |-> "Free",
                                 currencyCode |-> "USD"]>>]},
        present \in SUBSET { RequiredKeys[i] : i \in DOMAIN RequiredKeys } }

\* <dir>/p.json: missing, an empty object, or a primary object.
PrimaryFiles ==
    { [exists |-> FALSE, json |-> EmptyDict, mtime |-> 0],
      [exists |-> TRUE, json |-> EmptyDict, mtime |-> 100] }
    \cup { [exists |-> TRUE, json |-> j, mtime |-> 100] : j \in PrimaryJsons }

\* <dir>/categories/p.json: missing, an empty object, an object without
\* appCategory, or one with it.
CategoryFiles ==
    { [exists |-> FALSE, json |-> EmptyDict, mtime |-> 0],
      [exists |-> TRUE, json |-> EmptyDict, mtime |-> 200],
      [exists |-> TRUE, json |-> [docId |-> "p"], mtime |-> 200],
      [exists |-> TRUE, json |-> [appCategory |-> "GAME"], mtime |-> 200] }

\* _parse_json_file(prefix): the parsed object and the modification time,
\* or ({}, None).
_parse_json_file(file) ==
    IF ~file.exists THEN [json |-> EmptyDict, mtime |-> NoneVal]
    ELSE [json |-> file.json, mtime |-> file.mtime]

\* A test that gives up as soon as one of the two objects is empty.
NoData_either(meta_data, category_data) ==
    ~NonEmpty(meta_data) \/ ~NonEmpty(category_data)

\* if not meta_data and not category_data: return None
NoData(meta_data, category_data) ==
    ~NonEmpty(meta_data) /\ ~NonEmpty(category_data)

\* An append to a fresh list, whatever app_details holds.
AppendCategory_fresh(app_details, category_data) ==
    [appCategory |-> <<category_data.appCategory>>] @@ app_details

\* categories = app_details.setdefault('appCategory', [])
\* categories.append(category_data['appCategory'])
AppendCategory(app_details, category_data) ==
    [appCategory |->
        Append(Get(app_details, "appCategory", <<>>),
               category_data.appCategory)] @@ app_details

\* datetime.strptime(upload_date_string, '%b %d, %Y').timestamp()
UploadTimestamp(upload_date_string) ==
    CASE upload_date_string = "Jan 1, 2018" -> 1514764800

parse_upload_date(app_details) ==
    IF "uploadDate" \in DOMAIN app_details /\ Truthy(app_details.uploadDate)
    THEN UploadTimestamp(app_details.uploadDate)
    ELSE NoneVal

\* The loop of describe_in_app_purchases over the sections.
RECURSIVE InAppSection(_)
InAppSection(sections) ==
    IF sections = <<>> THEN NoneVal
    ELSE IF Head(sections).title = "In-app purchases"
    THEN Head(sections).description[1].description
    ELSE InAppSection(Tail(sections))

describe_in_app_purchases(meta_data) ==
    InAppSection(Get(Get(meta_data, "productDetails", EmptyDict),
                     "section", <<>>))

\* The first of the keys read by subscript that meta_data lacks, or NoneVal.
RECURSIVE FirstMissing(_, _)
FirstMissing(meta_data, keys) ==
    IF keys = <<>> THEN NoneVal
    ELSE IF Head(keys) \notin DOMAIN meta_data THEN Head(keys)
    ELSE FirstMissing(meta_data, Tail(keys))

\* What parse_google_play_info returns, [kind |-> "None"] or [kind |->
\* "record", ...], or the KeyError it raises.
parse_google_play_info(package_name, dir) ==
    LET primary == _parse_json_file(dir.primary)
        category == _parse_json_file(dir.category)
        category_data == category.json
    IN IF NoData(primary.json, category_data) THEN [kind |-> "None"]
       ELSE
       LET meta_data == IF ~NonEmpty(primary.json)
                        THEN [docId |-> package_name] ELSE primary.json
           mtime == IF ~NonEmpty(primary.json)
                    THEN category.mtime ELSE primary.mtime
           offer == Get(meta_data, "offer", <<>>)
           formatted_amount ==
               IF NonEmpty(offer)
               THEN Get(offer[1], "formattedAmount", NoneVal) ELSE NoneVal
           currency_code ==
               IF NonEmpty(offer)
               THEN Get(offer[1], "currencyCode", NoneVal) ELSE NoneVal
           details == Get(meta_data, "details", EmptyDict)
           app_details0 == Get(details, "appDetails", EmptyDict)
       IN IF NonEmpty(category_data) /\ "appCategory" \notin DOMAIN category_data
          THEN [kind |-> "KeyError", key |-> "appCategory"]
          ELSE
          LET app_details == IF NonEmpty(category_data)
                             THEN AppendCategory(app_details0, category_data)
                             ELSE app_details0
              aggregate_rating == Get(meta_data, "aggregateRating", EmptyDict)
              missing == FirstMissing(meta_data, RequiredKeys)
          IN IF missing # NoneVal
             THEN [kind |-> "KeyError", key |-> missing]
             ELSE [kind |-> "record",
                   docId |-> Get(meta_data, "docId", NoneVal),
                   uri |-> Get(meta_data, "shareUrl", NoneVal),
                   snapshotTimestamp |-> mtime,
                   title |-> Get(meta_data, "title", NoneVal),
                   has_appCategory |-> "appCategory" \in DOMAIN app_details,
                   appCategory |-> Get(app_details, "appCategory", <<>>),
                   promotionalDescription |-> meta_data.promotionalDescription,
                   descriptionHtml |-> meta_data.descriptionHtml,
                   translatedDescriptionHtml |->
                       meta_data.translatedDescriptionHtml,
                   versionCode |-> Get(app_details, "versionCode", NoneVal),
                   uploadDate |-> parse_upload_date(app_details),
                   formattedAmount |-> formatted_amount,
                   currencyCode |-> currency_code,
                   in_app_purchases |-> describe_in_app_purchases(meta_data),
                   starRating |-> Get(aggregate_rating, "starRating", NoneVal)]

\* parse_google_play_info is called for package p on some directory.
ParseInit ==
    /\ packages_by_repo = <<>>
    /\ ConsolidateIdle
    /\ LoaderIdle
    /\ FindPathsIdle
    /\ MainOrder
    /\ play_details_dir \in [primary : PrimaryFiles, category : CategoryFiles]
    /\ google_play_info = [kind |-> "pending"]
    /\ ppc = "call"

ParseGooglePlayInfo ==
    /\ ppc = "call"
    /\ google_play_info' = parse_google_play_info("p", play_details_dir)
    /\ ppc' = "returned"
    /\ UNCHANGED <<cvars, packages_by_repo, gvars, fvars, ovars,
                   play_details_dir>>

ParseNext == ParseGooglePlayInfo

SpecParse == ParseInit /\ [][ParseNext]_vars

\* ------------------------------------------------------------------ claims
\* The original row a yielded record was built from.
RowOf(i) == original.row[emitted[i].id]

\* The association pool as the i-th yielded record found it: what was passed
\* in, less the keys the records before it consumed.
PoolBefore(i) ==
    [k \in DOMAIN pool_in \ { matched[j].key : j \in 1..(i - 1) } |-> pool_in[k]]

\* The name the claims call the current name of a row.
CurrentNameOf(row) ==
    IF row.renamed_to # "" THEN row.renamed_to
    ELSE IF row.not_found # "TRUE" THEN row.full_name
    ELSE NoneVal

\* C1: when consolidate_data has ended, every distinct id of the original
\* table has exactly one yielded record, whatever the id lacks (forge-import
\* row, mirror-repair row, packages, clone id).
C1_OneRecordPerId ==
    pc \in {"done", "failed"} =>
        \A id \in { original_file[i].id : i \in DOMAIN original_file } :
            Cardinality({ i \in DOMAIN emitted : emitted[i].id = id }) = 1

\* C2: a pass of the loop on a row whose current name, or else whose original
\* name, is a key of the pool yields a record whose packages are the join of
\* that key's set, and removes exactly that key from the pool.
C2_AttachAndConsume ==
    [][ (pc = "loop" /\ idx <= Len(original.keys)) =>
          LET row == original.row[original.keys[idx]]
              cur == CurrentNameOf(row)
              key == IF cur \in DOMAIN packages_by_repo THEN cur
                     ELSE IF row.full_name \in DOMAIN packages_by_repo
                     THEN row.full_name ELSE NoneVal
          IN key # NoneVal =>
               /\ Len(emitted') = Len(emitted) + 1
               /\ emitted'[Len(emitted')].id = row.id
               /\ emitted'[Len(emitted')].has_packages
               /\ emitted'[Len(emitted')].packages \in Joins(packages_by_repo[key])
               /\ DOMAIN packages_by_repo' = DOMAIN packages_by_repo \ {key}
               /\ \A k \in DOMAIN packages_by_repo' :
                      packages_by_repo'[k] = packages_by_repo[k]
      ]_vars

\* C2's case: the pool holds only a -> {p}, the one row a is found and not
\* renamed; the pass is over, the record has packages "p", the pool is empty.
C2_Witness ==
    /\ pc = "done"
    /\ pool_in = [n \in {"a"} |-> {"p"}]
    /\ Len(original_file) = 1
    /\ original_file[1].full_name = "a"
    /\ original_file[1].renamed_to = ""
    /\ original_file[1].not_found = "FALSE"
    /\ Len(emitted) = 1
    /\ emitted[1].has_packages
    /\ emitted[1].packages = <<"p">>
    /\ DOMAIN packages_by_repo = {}

\* C3: every entry of the association pool is attached to at most one
\* yielded record: after a record consumed a name, no later record whose
\* current or original name is that name gets packages by it.
C3_NoDoubleMatch ==
    /\ \A k \in DOMAIN pool_in :
           Cardinality({ i \in DOMAIN emitted : matched[i].key = k }) <= 1
    /\ \A i, j \in DOMAIN emitted :
           (i < j /\ matched[i].key # NoneVal
              /\ (CurrentNameOf(RowOf(j)) = matched[i].key
                    \/ RowOf(j).full_name = matched[i].key))
           => /\ matched[j].key # matched[i].key
              /\ emitted[j].has_packages =>
                     /\ matched[j].key \in DOMAIN pool_in
                     /\ emitted[j].packages \in Joins(pool_in[matched[j].key])

\* C3's case: a record consumed a name, and a later record of that name
\* was yielded without packages.
C3_Witness ==
    \E i, j \in DOMAIN emitted :
        /\ i < j
        /\ matched[i].key # NoneVal
        /\ RowOf(j).full_name = matched[i].key
        /\ ~emitted[j].has_packages

\* C4: when all rows are consumed, no name left in the pool is the current
\* or the original name of a row of the original table.
C4_LeftoversUnknown ==
    pc = "done" =>
        \A k \in DOMAIN packages_by_repo :
            \A id \in DOMAIN original.row :
                /\ original.row[id].full_name # k
                /\ CurrentNameOf(original.row[id]) # k

\* C5: a row with renamed_to set has renamed_to as its current name, and
\* the lookup tries it first, in consolidate_data and in find_package_names,
\* whatever not_found is.
C5_RenamedToIsCurrent ==
    /\ \A n \in DOMAIN original_file :
         LET row == original_file[n]
         IN row.renamed_to # "" =>
              /\ get_latest_repo_name(row) = <<row.full_name, row.renamed_to>>
              /\ neo4j_get_latest_repo_name(row) = <<row.full_name, row.renamed_to>>
              /\ row.renamed_to \in DOMAIN packages_by_repo =>
                   find_package_names(row, packages_by_repo) =
                       [found |-> TRUE, by |-> "current",
                        set |-> packages_by_repo[row.renamed_to]]
    /\ \A i \in DOMAIN emitted :
         LET row == RowOf(i)
         IN (row.renamed_to # "" /\ row.renamed_to \in DOMAIN PoolBefore(i)) =>
              /\ matched[i] = [by |-> "current", key |-> row.renamed_to]
              /\ emitted[i].packages \in Joins(pool_in[row.renamed_to])

\* C5's case: a renamed row marked not found, both of whose names were in
\* the pool, got the packages of renamed_to.
C5_Witness ==
    \E i \in DOMAIN emitted :
        /\ RowOf(i).renamed_to = "b"
        /\ RowOf(i).full_name = "a"
        /\ RowOf(i).not_found = "TRUE"
        /\ {"a", "b"} \subseteq DOMAIN PoolBefore(i)
        /\ emitted[i].packages \in Joins(pool_in["b"])
        /\ "a" \in DOMAIN packages_by_repo

\* C6: a row not found and not renamed has no current name (None), and no
\* lookup by the current name succeeds for it, whatever the pool holds.
C6_NotFoundHasNoCurrentName ==
    /\ \A n \in DOMAIN original_file :
         LET row == original_file[n]
         IN (row.not_found = "TRUE" /\ row.renamed_to = "") =>
              /\ get_latest_repo_name(row)[2] = NoneVal
              /\ neo4j_get_latest_repo_name(row)[2] = NoneVal
              /\ \A S \in SUBSET Names :
                   LET pool == [k \in S |-> PackagesOf(k)]
                   IN /\ PackagesBranch(get_latest_repo_name(row)[2],
                                        row.full_name, pool) # "current"
                      /\ find_package_names(row, pool).by # "current"
    /\ \A i \in DOMAIN emitted :
         (RowOf(i).not_found = "TRUE" /\ RowOf(i).renamed_to = "") =>
              matched[i].by # "current"

\* C6's case: a row not found and not renamed was processed, its original
\* name being in the pool.
C6_Witness ==
    \E i \in DOMAIN emitted :
        /\ RowOf(i).not_found = "TRUE"
        /\ RowOf(i).renamed_to = ""
        /\ matched[i].by = "legacy"

\* C7: the identity columns of a yielded record are those of the original
\* row, also when the forge-import row of the id differs on them.
C7_OriginalIdentityWins ==
    \A i \in DOMAIN emitted :
        /\ emitted[i].full_name = RowOf(i).full_name
        /\ emitted[i].renamed_to = RowOf(i).renamed_to
        /\ emitted[i].not_found = RowOf(i).not_found

\* C7's case: a record was yielded for an id whose forge-import row differs
\* on all three identity columns, and the forge's columns were copied.
C7_Witness ==
    \E i \in DOMAIN emitted :
        /\ emitted[i].id \in DOMAIN gitlab_import
        /\ gitlab_import[emitted[i].id].full_name # RowOf(i).full_name
        /\ gitlab_import[emitted[i].id].renamed_to # RowOf(i).renamed_to
        /\ gitlab_import[emitted[i].id].not_found # RowOf(i).not_found
        /\ <<"differs", "full_name", emitted[i].id>> \in warnings
        /\ emitted[i].clone_status # Absent

\* C8: a record whose current name is a key of the mirror-repair table, or
\* else whose original name is, has that row's clone columns and clone_status
\* "Success".
C8_MirrorRepairByCurrentName ==
    \A i \in DOMAIN emitted :
        LET cur == CurrentNameOf(RowOf(i))
            key == IF cur \in DOMAIN mirrored_repos THEN cur
                   ELSE IF RowOf(i).full_name \in DOMAIN mirrored_repos
                   THEN RowOf(i).full_name ELSE NoneVal
        IN key # NoneVal =>
             /\ emitted[i].clone_project_name = mirrored_repos[key].clone_project_name
             /\ emitted[i].clone_project_id = mirrored_repos[key].clone_project_id
             /\ emitted[i].clone_project_path = mirrored_repos[key].clone_project_path
             /\ emitted[i].clone_status = "Success"

\* The GitHubRepository nodes of the graph.
RepositoryNodes == { n \in graph.nodes : n.label = "GitHubRepository" }

\* Row n of REPOSITORY_LIST has been through add_repository_node.
RowLoaded(n) ==
    /\ n \in DOMAIN repository_list
    /\ repository_list[n].clone_status = "Success"
    /\ (ridx > n \/ (ridx = n /\ loading.active))

\* C9: when the same repository row has been loaded twice (its package set
\* matching one App node), the graph has a single GitHubRepository node of
\* that forge id: the second load adds none.
C9_LoadTwiceOneNode ==
    \A i, j \in DOMAIN repository_list :
        (/\ i < j
         /\ repository_list[i] = repository_list[j]
         /\ RowLoaded(i) /\ RowLoaded(j)
         /\ Cardinality(MatchedApps(graph,
                find_package_names(repository_list[i], packages_by_repo))) = 1)
        => Cardinality({ n \in RepositoryNodes :
                           n.src = repository_list[i].id }) = 1

\* C10: when the run is over, every GitHubRepository node whose parent id or
\* source id is the forge id of another GitHubRepository node has a FORKS
\* relationship to it, whichever of the two rows came first.
C10_ForkEdgesAfterLoad ==
    gpc = "done" =>
        \A child, parent \in RepositoryNodes :
            (child # parent
               /\ (child.props.parentId = parent.src
                     \/ child.props.sourceId = parent.src))
            => \E r \in graph.rels :
                   r.type = "FORKS" /\ r.from = child.nid /\ r.to = parent.nid

\* add_repository_info is about to load the row at ridx, which was cloned.
AtRepositoryRow ==
    /\ gpc = "repos"
    /\ ~loading.active
    /\ ridx <= Len(repository_list)
    /\ repository_list[ridx].clone_status = "Success"

\* The App nodes the package set of the row at ridx matches.
AppsOfRow ==
    MatchedApps(graph,
                find_package_names(repository_list[ridx], packages_by_repo))

\* The nodes of a label, and the relationships of a type, that a step adds.
NewNodes(label) == { n \in graph'.nodes \ graph.nodes : n.label = label }
NewRels(type) == { r \in graph'.rels \ graph.rels : r.type = type }

\* C11: loading a row whose package set matches k >= 1 App nodes creates
\* exactly one GitHubRepository node and exactly k IMPLEMENTED_BY edges, one
\* from each matched App node to that one node.
C11_OneRepositoryNodeForItsApps ==
    [][ (AtRepositoryRow /\ AppsOfRow # {}) =>
          /\ Cardinality(NewNodes("GitHubRepository")) = 1
          /\ Cardinality(NewRels("IMPLEMENTED_BY")) = Cardinality(AppsOfRow)
          /\ \A app \in AppsOfRow :
               \E r \in NewRels("IMPLEMENTED_BY"),
                  repo \in NewNodes("GitHubRepository") :
                   r.from = app.nid /\ r.to = repo.nid
      ]_vars

\* C12: the graph never holds two Commit nodes of one hash, nor two
\* Contributor nodes of one email, whatever commits, branches and tags of
\* whatever repositories have been added.
C12_OneNodePerHashAndEmail ==
    \A n1, n2 \in graph.nodes :
        /\ (n1.label = "Commit" /\ n2.label = "Commit"
              /\ n1.props.hash = n2.props.hash) => n1 = n2
        /\ (n1.label = "Contributor" /\ n2.label = "Contributor"
              /\ n1.props.email = n2.props.email) => n1 = n2

\* C12's case: both repositories are loaded; contributor x@ authored commits
\* of both, and commit c1 was merged as a commit, as a parent and as the
\* target of a tag.
C12_Witness ==
    /\ gpc = "done"
    /\ \E x \in Matching(graph, "Contributor", "email", "x@") :
         \E r1, r2 \in graph.rels :
            /\ r1.type = "AUTHORS" /\ r2.type = "AUTHORS"
            /\ r1.from = x.nid /\ r2.from = x.nid
            /\ \E c \in Matching(graph, "Commit", "hash", "c1") : r1.to = c.nid
            /\ \E c \in Matching(graph, "Commit", "hash", "c3") : r2.to = c.nid
    /\ Matching(graph, "Commit", "hash", "c2") # {}
    /\ Matching(graph, "Tag", "name", "v1") # {}

\* C13: when add_app_data has run over the pool, every package of the pool
\* has exactly one App node and exactly one GooglePlayPage node, joined by
\* one PUBLISHED_AT edge.
C13_OneAppOnePagePerPackage ==
    gpc \in {"repos", "done"} =>
        \A name \in DOMAIN packages_by_repo :
            \A package \in packages_by_repo[name] :
                /\ Cardinality(Matching(graph, "App", "id", package)) = 1
                /\ Cardinality(Matching(graph, "GooglePlayPage", "docId",
                                        package)) = 1
                /\ Cardinality({ r \in graph.rels :
                       /\ r.type = "PUBLISHED_AT"
                       /\ \E a \in Matching(graph, "App", "id", package) :
                              r.from = a.nid }) = 1

\* add_implementation_properties is about to search for a package.
AtImplementationProperties ==
    /\ loading.active
    /\ loading.commits = <<>>
    /\ loading.branches = <<>>
    /\ loading.tags = <<>>
    /\ loading.packages # {}

\* The IMPLEMENTED_BY edges of a graph from an App node of the package to the
\* repository node being loaded.
EdgesOf(g, package) ==
    { r \in g.rels :
        /\ r.type = "IMPLEMENTED_BY"
        /\ r.to = loading.node
        /\ \E a \in Matching(g, "App", "id", package) : a.nid = r.from }

\* The property a search of a kind adds for the package, if it finds paths.
HasPaths(r, property, kind, package) ==
    LET paths == find_paths(Grep(git_grep, kind, package))
    IN paths # <<>> => (property \in DOMAIN r.props /\ r.props[property] = paths)

PathsOf(results) == { results[i].path : i \in DOMAIN results }
Count(paths, pa) == Cardinality({ i \in DOMAIN paths : paths[i] = pa })

\* The paths of a sequence are in the order of str and no two neighbours are
\* equal.
SortedNoEqualNeighbours(paths) ==
    \A i \in 1..(Len(paths) - 1) :
        /\ PathRank(paths[i]) <= PathRank(paths[i + 1])
        /\ paths[i] # paths[i + 1]

\* A path the search results hold at two places with another path between.
EmittedApart(results, pa) ==
    \E i, j, k \in DOMAIN results :
        /\ i < j /\ j < k
        /\ results[i].path = pa /\ results[k].path = pa
        /\ results[j].path # pa

\* C15, as claimed: find_paths returns the paths of the matches sorted, with
\* equal neighbours removed, and a path the search tool emits non-contiguously
\* appears more than once in the result.
C15_NonAdjacentDuplicatesSurvive ==
    fpc = "returned" =>
        /\ { found_paths[i] : i \in DOMAIN found_paths } = PathsOf(grep_output)
        /\ SortedNoEqualNeighbours(found_paths)
        /\ \A pa \in PathsOf(grep_output) :
               EmittedApart(grep_output, pa) => Count(found_paths, pa) > 1

\* C15, amended: find_paths returns each path of the matches once, in the
\* order of str, however the search tool orders its matches; for the matches
\* (1, a/b.xml), (5, a/b.xml), (2, c/d.xml) it returns a/b.xml, c/d.xml.
C15_SortedDistinctPaths ==
    fpc = "returned" =>
        /\ { found_paths[i] : i \in DOMAIN found_paths } = PathsOf(grep_output)
        /\ SortedNoEqualNeighbours(found_paths)
        /\ \A pa \in PathsOf(grep_output) : Count(found_paths, pa) = 1
        /\ grep_output = <<[line |-> 1, path |-> "a/b.xml"],
                              [line |-> 5, path |-> "a/b.xml"],
                              [line |-> 2, path |-> "c/d.xml"]>>
             => found_paths = <<"a/b.xml", "c/d.xml">>

\* C15's case: the search emitted a/b.xml, c/d.xml, a/b.xml and find_paths
\* returned a/b.xml once.
C15_Witness ==
    /\ fpc = "returned"
    /\ grep_output = <<[line |-> 1, path |-> "a/b.xml"],
                          [line |-> 2, path |-> "c/d.xml"],
                          [line |-> 5, path |-> "a/b.xml"]>>
    /\ found_paths = <<"a/b.xml", "c/d.xml">>

\* A file of the details directory exists and holds a non-empty object.
HasContent(file) == file.exists /\ NonEmpty(file.json)

C17_MinimalRecordFromCategoryFile ==
    (/\ ppc = "returned"
     /\ ~play_details_dir.primary.exists
     /\ HasContent(play_details_dir.category))
    => /\ google_play_info.kind = "record"
       /\ google_play_info.docId = "p"
       /\ google_play_info.snapshotTimestamp = play_details_dir.category.mtime

\* The appCategory list of the primary file, empty when the file has no
\* details, no appDetails or no appCategory.
PrimaryCategories ==
    LET json == play_details_dir.primary.json
    IN IF "details" \notin DOMAIN json THEN <<>>
       ELSE IF "appDetails" \notin DOMAIN json.details THEN <<>>
       ELSE IF "appCategory" \notin DOMAIN json.details.appDetails THEN <<>>
       ELSE json.details.appDetails.appCategory

\* C18: when both files have content and a record is returned, its
\* appCategory is the primary file's categories in their order, followed by
\* the category file's entry.
C18_CategoriesOfBothFiles ==
    (/\ ppc = "returned"
     /\ HasContent(play_details_dir.primary)
     /\ HasContent(play_details_dir.category)
     /\ google_play_info.kind = "record")
    => /\ google_play_info.has_appCategory
       /\ google_play_info.appCategory =
            Append(PrimaryCategories, play_details_dir.category.json.appCategory)

\* C18's case: a record with A, B, GAME from a primary file with A, B and a
\* category file with GAME.
C18_Witness ==
    /\ ppc = "returned"
    /\ google_play_info.kind = "record"
    /\ HasContent(play_details_dir.category)
    /\ PrimaryCategories = <<"A", "B">>
    /\ google_play_info.appCategory = <<"A", "B", "GAME">>

\* The commits the forge lists for the repository of row n.
CommitsOfRow(n) ==
    GitlabProject(ParseInt(repository_list[n].clone_project_id)).commits

\* C19: when add_commit_nodes has processed the commits of a repository,
\* whatever their order, every parent id of every commit has a Commit node,
\* and a relationship links the commit's node and the parent's node.
C19_ParentRelationships ==
    \A n \in DOMAIN repository_list :
        (repository_list[n].clone_status = "Success" /\ ridx > n) =>
            \A commit \in CommitsOfRow(n) :
                \A k \in DOMAIN commit.parent_ids :
                    \E c \in Matching(graph, "Commit", "hash", commit.id),
                       parent \in Matching(graph, "Commit", "hash",
                                           commit.parent_ids[k]) :
                        \E r \in graph.rels :
                            \/ r.from = c.nid /\ r.to = parent.nid
                            \/ r.from = parent.nid /\ r.to = c.nid

\* C20: loading a row whose package set matches no App node creates one
\* GitHubRepository node and no IMPLEMENTED_BY edge, and add_repository_info
\* goes on to populate that node.
C20_OrphanRepositoryNode ==
    [][ (AtRepositoryRow /\ AppsOfRow = {}) =>
          /\ Cardinality(NewNodes("GitHubRepository")) = 1
          /\ NewRels("IMPLEMENTED_BY") = {}
          /\ gpc' = "repos"
          /\ loading'.active
          /\ \E repo \in NewNodes("GitHubRepository") :
                 loading'.node = repo.nid
      ]_vars

\* The loop of consolidate_data is at a row that is not found and not renamed.
AtUnreachableRow ==
    /\ pc = "loop"
    /\ idx <= Len(original.keys)
    /\ original.row[original.keys[idx]].not_found = "TRUE"
    /\ original.row[original.keys[idx]].renamed_to = ""

\* The record of the row at idx as it is before the mirror repair.
BeforeRepair ==
    LET github_id == original.keys[idx]
    IN IF github_id \in DOMAIN gitlab_import
       THEN AddGitlabImport(StartCombined(original.row[github_id]),
                            gitlab_import[github_id])
       ELSE StartCombined(original.row[github_id])

\* The clone columns of a record.
CloneColumns(record) ==
    <<record.clone_project_name, record.clone_project_id,
      record.clone_project_path, record.clone_status>>

\* C22, as claimed: a pass of the loop on a row that is not found and not
\* renamed leaves the association pool as it is, and the record it yields
\* has no packages and the clone columns it had before the mirror repair.
C22_UnreachableRowUntouched ==
    [][ AtUnreachableRow =>
          /\ packages_by_repo' = packages_by_repo
          /\ Len(emitted') > Len(emitted) =>
               /\ ~emitted'[Len(emitted')].has_packages
               /\ CloneColumns(emitted'[Len(emitted')]) =
                      CloneColumns(BeforeRepair)
      ]_vars

\* C22, amended: a pass of the loop on a row that is not found and not
\* renamed uses the row's original name alone: it consumes the pool entry of
\* that name and no other, the record it yields has the packages of that
\* name and the mirror repair of that name's row if there is one; when the
\* name is in neither table nothing is overwritten, attached or consumed.
C22_UnreachableRowByOriginalName ==
    [][ AtUnreachableRow =>
          LET name == original.row[original.keys[idx]].full_name
          IN /\ DOMAIN packages_by_repo' = DOMAIN packages_by_repo \ {name}
             /\ \A k \in DOMAIN packages_by_repo' :
                    packages_by_repo'[k] = packages_by_repo[k]
             /\ name \notin DOMAIN packages_by_repo =>
                    \A n \in (Len(emitted) + 1)..Len(emitted') :
                        ~emitted'[n].has_packages
             /\ Len(emitted') > Len(emitted) =>
                  /\ name \in DOMAIN packages_by_repo
                  /\ emitted'[Len(emitted')].has_packages
                  /\ emitted'[Len(emitted')].packages
                         \in Joins(packages_by_repo[name])
                  /\ CloneColumns(emitted'[Len(emitted')]) =
                       IF name \in DOMAIN mirrored_repos
                       THEN CloneColumns(_correct_gitlab_data(
                                BeforeRepair, mirrored_repos[name]))
                       ELSE CloneColumns(BeforeRepair)
      ]_vars

\* C22's case: a record was yielded for a row not found and not renamed,
\* with the packages and the mirror repair of its original name.
C22_Witness ==
    \E i \in DOMAIN emitted :
        /\ RowOf(i).not_found = "TRUE"
        /\ RowOf(i).renamed_to = ""
        /\ RowOf(i).full_name \in DOMAIN mirrored_repos
        /\ emitted[i].id \notin DOMAIN gitlab_import
        /\ emitted[i].clone_status = "Success"
        /\ emitted[i].has_packages
        /\ RowOf(i).full_name \notin DOMAIN packages_by_repo

\* C23: a pass of the loop of add_repository_info on a row whose clone_status
\* is not "Success" leaves the graph and the association pool as they are,
\* starts no load, and moves to the next row.
C23_UnclonedRowSkipped ==
    [][ (/\ gpc = "repos"
         /\ ~loading.active
         /\ ridx <= Len(repository_list)
         /\ repository_list[ridx].clone_status # "Success")
        => /\ graph' = graph
           /\ packages_by_repo' = packages_by_repo
           /\ ~loading'.active
           /\ ridx' = ridx + 1
           /\ gpc' = "repos"
      ]_vars

\* C23's case: the first row was not cloned, the second was; the run is over
\* and the graph holds a GitHubRepository node of the second row and none of
\* the first.
C23_Witness ==
    /\ gpc = "done"
    /\ Len(repository_list) = 2
    /\ repository_list[1].clone_status = "Failed"
    /\ repository_list[2].clone_status = "Success"
    /\ \E n \in RepositoryNodes : n.src = repository_list[2].id
    /\ \A n \in RepositoryNodes : n.src # repository_list[1].id

\* The run in the reverse order has ended.
ReversedEnded == order = "repos_first" /\ gpc \in {"done", "failed"}

==========================================================================
